---- MODULE Spec2Model ----
(***************************************************************************)
(* A model of the 2D packing strategies of OptimalBins:                    *)
(*   binpacking/algorithms/_2d/first_fit.py    FirstFit2D                  *)
(*   binpacking/algorithms/_2d/bottom_left.py  BottomLeft2D                *)
(*   optimalbins/algorithms/_2d/guillotine.py  Guillotine2D                *)
(*   optimalbins/algorithms/_2d/maxrects.py    MaxRects2D                  *)
(* over the value objects Item (models/item.py) and Bin (models/bin.py).   *)
(*                                                                         *)
(* A bin's item list holds references to Item objects, so it is modelled   *)
(* as a sequence of indices into the item sequence: the position of an     *)
(* entry of a bin is the current position of the item it refers to.        *)
(* An item carries one history field, sets, that counts the calls of       *)
(* Item.set_position on it; lengths are integers.                          *)
(* result is BinManager.result where a manager is modelled, None          *)
(* otherwise; in the two-run specification it records the first run.       *)
(***************************************************************************)
EXTENDS Integers, Sequences, FiniteSets, TLC

\* Bounds of the inputs a run is started with: the number of items, the
\* largest width or height, and the number of bins the caller passes, for
\* FirstFit2D, BottomLeft2D and the single-bin MaxRects2D runs ...
MaxItems == 3
MaxDim == 2
MaxBins == 1
\* ... and the largest width or height and the number of bins of the
\* Guillotine2D and multi-bin MaxRects2D runs.
MaxFreeDim == 3
MaxFreeBins == 2

\* The longest list prune_free_rectangles is called on by itself.
MaxPruneLen == 3

\* The longest list find_best_position is called on by itself.
MaxFindLen == 2

\* The number of items of a run that is repeated from equal fresh inputs.
MaxRunItems == 2

\* The number of BinManager.pack calls that return on one manager.
MaxPacks == 2

VARIABLES alg, heuristic, items, bins, free, bi, ii, pc, result

vars == <<alg, heuristic, items, bins, free, bi, ii, pc, result>>

Range(s) == {s[k] : k \in 1..Len(s)}

\* The value find_position and find_best_position return when nothing fits.
None == <<>>

(***************************************************************************)
(* Value objects                                                           *)
(***************************************************************************)

\* Item.__init__ (2D: depth is None); the position starts at (0.0, 0.0).
Item(w, h) == [width |-> w, height |-> h, x |-> 0, y |-> 0, sets |-> 0]

\* Bin.__init__ (2D: depth is None), with the identifier the tests give their
\* base bin.  free_rectangles is the attribute MaxRects2D.pack stores on the
\* bin; it is empty until then.
Bin(w, h) ==
    [id |-> "bin_1", width |-> w, height |-> h, depth |-> None,
     items |-> <<>>, free_rectangles |-> <<>>]

\* Bin.__init__ with an identifier of the caller's choice
BinWithId(id, w, h) == [Bin(w, h) EXCEPT !.id = id]

\* Item.set_position
set_position(it, x, y) == [it EXCEPT !.x = x, !.y = y, !.sets = @ + 1]

\* Bin.can_fit with the height comparison left out.
can_fit_width_only(b, it) == it.width <= b.width

\* Bin.can_fit, the branch taken when the bin has no depth
can_fit(b, it) == it.width <= b.width /\ it.height <= b.height

\* Bin.add_item: appends the reference i to the list only when the item fits;
\* its boolean result is not used by any caller.
add_item(b, i, it) == IF can_fit(b, it) THEN [b EXCEPT !.items = Append(@, i)] ELSE b

\* type(base_bin)(id=f"bin_{len(bins) + 1}", width=base_bin.width,
\*                height=base_bin.height, depth=base_bin.depth)
new_bin(bs) ==
    [Bin(bs[1].width, bs[1].height) EXCEPT !.id = "bin_" \o ToString(Len(bs) + 1),
                                           !.depth = bs[1].depth]

(***************************************************************************)
(* BottomLeft2D                                                            *)
(***************************************************************************)

\* BottomLeft2D.rectangles_overlap with "+ h2" left out of the last comparison.
rectangles_overlap_no_h2(x1, y1, w1, h1, x2, y2, w2, h2) ==
    ~(x1 + w1 <= x2 \/ x2 + w2 <= x1 \/ y1 + h1 <= y2 \/ y2 <= y1)

\* BottomLeft2D.rectangles_overlap with strict comparisons on the x axis, so
\* that rectangles side by side count as overlapping.
rectangles_overlap_touching(x1, y1, w1, h1, x2, y2, w2, h2) ==
    ~(x1 + w1 < x2 \/ x2 + w2 < x1 \/ y1 + h1 <= y2 \/ y2 + h2 <= y1)

\* BottomLeft2D.rectangles_overlap
rectangles_overlap(x1, y1, w1, h1, x2, y2, w2, h2) ==
    ~(x1 + w1 <= x2 \/ x2 + w2 <= x1 \/ y1 + h1 <= y2 \/ y2 + h2 <= y1)

\* BottomLeft2D.overlap
overlap(b, its, it, x, y) ==
    \E k \in 1..Len(b.items) :
        LET placed == its[b.items[k]]
        IN  rectangles_overlap(x, y, it.width, it.height,
                               placed.x, placed.y, placed.width, placed.height)

\* BottomLeft2D.find_position, the candidate list without the corners above
\* the placed items.
candidate_positions_right_only(b, its) ==
    <<<<0, 0>>>> \o
    [k \in 1..Len(b.items) |->
        <<its[b.items[k]].x + its[b.items[k]].width, its[b.items[k]].y>>]

\* BottomLeft2D.find_position, the candidate list: (0,0), then for every placed
\* item the corner to its right and the corner above it.
candidate_positions(b, its) ==
    <<<<0, 0>>>> \o
    [k \in 1..(2 * Len(b.items)) |->
        LET placed == its[b.items[(k + 1) \div 2]]
        IN  IF k % 2 = 1 THEN <<placed.x + placed.width, placed.y>>
                         ELSE <<placed.x, placed.y + placed.height>>]

\* BottomLeft2D.find_position, the filter: inside the bin and no overlap.
valid_candidates(b, its, it) ==
    LET Valid(c) == /\ c[1] + it.width <= b.width
                    /\ c[2] + it.height <= b.height
                    /\ ~overlap(b, its, it, c[1], c[2])
    IN  SelectSeq(candidate_positions(b, its), Valid)

\* BottomLeft2D.find_position with the valid candidates sorted by (x, y).
find_position_sorted_by_x(b, its, it) ==
    LET valid == Range(valid_candidates(b, its, it))
    IN  IF valid = {} THEN None
        ELSE CHOOSE c \in valid :
                 \A d \in valid : c[1] < d[1] \/ (c[1] = d[1] /\ c[2] <= d[2])

\* BottomLeft2D.find_position: the first of the valid candidates sorted by (y, x).
find_position(b, its, it) ==
    LET valid == Range(valid_candidates(b, its, it))
    IN  IF valid = {} THEN None
        ELSE CHOOSE c \in valid :
                 \A d \in valid : c[2] < d[2] \/ (c[2] = d[2] /\ c[1] <= d[1])

\* BottomLeft2D.pack, the loop body for item ii with the bins tried from the
\* last to the first.
BLPlaceLastBin ==
    /\ pc = "run" /\ alg = "bottom_left" /\ ii <= Len(items)
    /\ \E b \in 1..Len(bins) :
        /\ find_position(bins[b], items, items[ii]) # None
        /\ \A c \in (b + 1)..Len(bins) : find_position(bins[c], items, items[ii]) = None
        /\ LET candidate == find_position(bins[b], items, items[ii])
               item == set_position(items[ii], candidate[1], candidate[2])
           IN  /\ items' = [items EXCEPT ![ii] = item]
               /\ bins' = [bins EXCEPT ![b] = add_item(@, ii, item)]
    /\ ii' = ii + 1
    /\ UNCHANGED <<alg, heuristic, free, bi, pc, result>>

\* BottomLeft2D.pack, the loop body for item ii placing the item in any bin
\* at any valid candidate, not the first of each.
BLPlaceAnywhere ==
    /\ pc = "run" /\ alg = "bottom_left" /\ ii <= Len(items)
    /\ \E b \in 1..Len(bins) :
        \E candidate \in Range(valid_candidates(bins[b], items, items[ii])) :
            LET item == set_position(items[ii], candidate[1], candidate[2])
            IN  /\ items' = [items EXCEPT ![ii] = item]
                /\ bins' = [bins EXCEPT ![b] = add_item(@, ii, item)]
    /\ ii' = ii + 1
    /\ UNCHANGED <<alg, heuristic, free, bi, pc, result>>

\* BottomLeft2D.pack, the loop body for item ii when some bin has a candidate:
\* the first such bin gets the item.
BLPlace ==
    /\ pc = "run" /\ alg = "bottom_left" /\ ii <= Len(items)
    /\ \E b \in 1..Len(bins) :
        /\ find_position(bins[b], items, items[ii]) # None
        /\ \A c \in 1..(b - 1) : find_position(bins[c], items, items[ii]) = None
        /\ LET candidate == find_position(bins[b], items, items[ii])
               item == set_position(items[ii], candidate[1], candidate[2])
           IN  /\ items' = [items EXCEPT ![ii] = item]
               /\ bins' = [bins EXCEPT ![b] = add_item(@, ii, item)]
    /\ ii' = ii + 1
    /\ UNCHANGED <<alg, heuristic, free, bi, pc, result>>

\* BottomLeft2D.pack, the loop body for item ii when no bin has a candidate and
\* a base bin exists: a new bin is built from the first one and appended.
BLOverflow ==
    /\ pc = "run" /\ alg = "bottom_left" /\ ii <= Len(items)
    /\ \A b \in 1..Len(bins) : find_position(bins[b], items, items[ii]) = None
    /\ bins # <<>>
    /\ LET item == set_position(items[ii], 0, 0)
       IN  /\ items' = [items EXCEPT ![ii] = item]
           /\ bins' = Append(bins, add_item(new_bin(bins), ii, item))
    /\ ii' = ii + 1
    /\ UNCHANGED <<alg, heuristic, free, bi, pc, result>>

\* BottomLeft2D.pack with the test for a base bin moved below the call of
\* set_position: the item is positioned at (0,0) before the error is raised.
BLRaiseAfterPosition ==
    /\ pc = "run" /\ alg = "bottom_left" /\ ii <= Len(items)
    /\ bins = <<>>
    /\ items' = [items EXCEPT ![ii] = set_position(@, 0, 0)]
    /\ pc' = "error"
    /\ UNCHANGED <<alg, heuristic, bins, free, bi, ii, result>>

\* BottomLeft2D.pack: raise ValueError("No hay un bin base definido ...")
BLRaise ==
    /\ pc = "run" /\ alg = "bottom_left" /\ ii <= Len(items)
    /\ bins = <<>>
    /\ pc' = "error"
    /\ UNCHANGED <<alg, heuristic, items, bins, free, bi, ii, result>>

(***************************************************************************)
(* FirstFit2D                                                              *)
(***************************************************************************)

\* FirstFit2D.pack, the loop body for item ii when some bin can_fit it.
FFPlace ==
    /\ pc = "run" /\ alg = "first_fit" /\ ii <= Len(items)
    /\ \E b \in 1..Len(bins) :
        /\ can_fit(bins[b], items[ii])
        /\ \A c \in 1..(b - 1) : ~can_fit(bins[c], items[ii])
        /\ bins' = [bins EXCEPT ![b] = add_item(@, ii, items[ii])]
    /\ ii' = ii + 1
    /\ UNCHANGED <<alg, heuristic, items, free, bi, pc, result>>

\* FirstFit2D.pack, the loop body for item ii when no bin can_fit it and a
\* base bin exists.
FFOverflow ==
    /\ pc = "run" /\ alg = "first_fit" /\ ii <= Len(items)
    /\ \A b \in 1..Len(bins) : ~can_fit(bins[b], items[ii])
    /\ Len(bins) # 0
    /\ bins' = Append(bins, add_item(new_bin(bins), ii, items[ii]))
    /\ ii' = ii + 1
    /\ UNCHANGED <<alg, heuristic, items, free, bi, pc, result>>

\* FirstFit2D.pack: raise ValueError("No hay bins iniciales definidos ...")
FFRaise ==
    /\ pc = "run" /\ alg = "first_fit" /\ ii <= Len(items)
    /\ Len(bins) = 0
    /\ pc' = "error"
    /\ UNCHANGED <<alg, heuristic, items, bins, free, bi, ii, result>>

\* return PackingResult(bins=bins, metrics=...) of FirstFit2D and BottomLeft2D
Return ==
    /\ pc = "run" /\ alg \in {"first_fit", "bottom_left"} /\ ii > Len(items)
    /\ pc' = "done"
    /\ UNCHANGED <<alg, heuristic, items, bins, free, bi, ii, result>>

(***************************************************************************)
(* Guillotine2D.  A rectangle is a tuple <<x, y, width, height>>.          *)
(***************************************************************************)

\* The heuristic names a caller may configure; "unknown" stands for every
\* name neither class recognises.
GuillotineNames == {"default", "alternative", "shorter_side", "longer_side", "unknown"}

\* free_rectangles = [(0.0, 0.0, bin.width, bin.height)]
full_rectangle(b) == <<<<0, 0, b.width, b.height>>>>

\* free_rectangles.pop(rect_index): the list without its element at idx
pop(rects, idx) == SubSeq(rects, 1, idx - 1) \o SubSeq(rects, idx + 1, Len(rects))

\* Guillotine2D.find_position: the first free rectangle that admits the item,
\* as <<x, y, index>>.
g_find_position(rects, it) ==
    LET fits == {k \in 1..Len(rects) :
                    it.width <= rects[k][3] /\ it.height <= rects[k][4]}
    IN  IF fits = {} THEN None
        ELSE LET idx == CHOOSE k \in fits : \A m \in fits : k <= m
             IN  <<rects[idx][1], rects[idx][2], idx>>

\* Guillotine2D._split_default with the right remainder as high as the whole
\* rectangle.
split_default_right_full_height(rect, it, x, y) ==
    LET rx == rect[1]  ry == rect[2]  rwidth == rect[3]  rheight == rect[4]
        right_width == (rx + rwidth) - (x + it.width)
        top_height == (ry + rheight) - (y + it.height)
    IN  (IF right_width > 0 THEN <<<<x + it.width, y, right_width, rheight>>>> ELSE <<>>)
        \o (IF top_height > 0 THEN <<<<rx, y + it.height, rwidth, top_height>>>> ELSE <<>>)

\* Guillotine2D._split_default
split_default(rect, it, x, y) ==
    LET rx == rect[1]  ry == rect[2]  rwidth == rect[3]  rheight == rect[4]
        right_width == (rx + rwidth) - (x + it.width)
        top_height == (ry + rheight) - (y + it.height)
    IN  (IF right_width > 0 THEN <<<<x + it.width, y, right_width, it.height>>>> ELSE <<>>)
        \o (IF top_height > 0 THEN <<<<rx, y + it.height, rwidth, top_height>>>> ELSE <<>>)

\* Guillotine2D._split_alternative
split_alternative(rect, it, x, y) ==
    LET rx == rect[1]  ry == rect[2]  rwidth == rect[3]  rheight == rect[4]
        horizontal_width == (rx + rwidth) - (x + it.width)
        vertical_height == (ry + rheight) - (y + it.height)
    IN  (IF horizontal_width > 0
            THEN <<<<x + it.width, y, horizontal_width, rheight>>>> ELSE <<>>)
        \o (IF vertical_height > 0
            THEN <<<<rx, y + it.height, it.width, vertical_height>>>> ELSE <<>>)

\* Guillotine2D._split_shorter_side
split_shorter_side(rect, it, x, y) ==
    LET rx == rect[1]  ry == rect[2]  rwidth == rect[3]  rheight == rect[4]
        right_leftover == (rx + rwidth) - (x + it.width)
        top_leftover == (ry + rheight) - (y + it.height)
    IN  IF right_leftover <= top_leftover
        THEN (IF right_leftover > 0
                THEN <<<<x + it.width, y, right_leftover, it.height>>>> ELSE <<>>)
             \o (IF top_leftover > 0
                THEN <<<<rx, y + it.height, rwidth, top_leftover>>>> ELSE <<>>)
        ELSE (IF top_leftover > 0
                THEN <<<<rx, y + it.height, rwidth, top_leftover>>>> ELSE <<>>)
             \o (IF right_leftover > 0
                THEN <<<<x + it.width, y, right_leftover, rheight>>>> ELSE <<>>)

\* Guillotine2D._split_longer_side
split_longer_side(rect, it, x, y) ==
    LET rx == rect[1]  ry == rect[2]  rwidth == rect[3]  rheight == rect[4]
        right_leftover == (rx + rwidth) - (x + it.width)
        top_leftover == (ry + rheight) - (y + it.height)
    IN  IF right_leftover >= top_leftover
        THEN (IF right_leftover > 0
                THEN <<<<x + it.width, y, right_leftover, it.height>>>> ELSE <<>>)
             \o (IF top_leftover > 0
                THEN <<<<rx, y + it.height, rwidth, top_leftover>>>> ELSE <<>>)
        ELSE (IF top_leftover > 0
                THEN <<<<rx, y + it.height, rwidth, top_leftover>>>> ELSE <<>>)
             \o (IF right_leftover > 0
                THEN <<<<x + it.width, y, right_leftover, rheight>>>> ELSE <<>>)

\* Guillotine2D.split_rectangle, the key:
\* self.heuristic.lower().replace(" ", "").replace("_", "")
split_key(h) ==
    CASE h = "shorter_side" -> "shorterside"
      [] h = "longer_side" -> "longerside"
      [] OTHER -> h

\* Guillotine2D.split_rectangle, the keys that do not raise
known_split_key(key) ==
    key \in {"default", "alternative", "shorterside", "shorter", "longerside", "longer"}

\* Guillotine2D.split_rectangle, the dispatch on the key
split_rectangle(h, rect, it, x, y) ==
    LET key == split_key(h)
    IN  CASE key = "default" -> split_default(rect, it, x, y)
          [] key = "alternative" -> split_alternative(rect, it, x, y)
          [] key \in {"shorterside", "shorter"} -> split_shorter_side(rect, it, x, y)
          [] key \in {"longerside", "longer"} -> split_longer_side(rect, it, x, y)

\* Guillotine2D.pack, the inner loop body when no free rectangle of the
\* current bin admits item ii: the item is skipped for this bin.
GSkip ==
    /\ pc = "run" /\ alg = "guillotine" /\ bi <= Len(bins) /\ ii <= Len(items)
    /\ g_find_position(free, items[ii]) = None
    /\ ii' = ii + 1
    /\ UNCHANGED <<alg, heuristic, items, bins, free, bi, pc, result>>

\* Guillotine2D.pack, the inner loop body when a free rectangle admits item
\* ii and the split rule is known.
GPlace ==
    /\ pc = "run" /\ alg = "guillotine" /\ bi <= Len(bins) /\ ii <= Len(items)
    /\ g_find_position(free, items[ii]) # None
    /\ known_split_key(split_key(heuristic))
    /\ LET pos == g_find_position(free, items[ii])
           item == set_position(items[ii], pos[1], pos[2])
           used_rect == free[pos[3]]
       IN  /\ items' = [items EXCEPT ![ii] = item]
           /\ bins' = [bins EXCEPT ![bi] = add_item(@, ii, item)]
           /\ free' = pop(free, pos[3])
                        \o split_rectangle(heuristic, used_rect, item, pos[1], pos[2])
    /\ ii' = ii + 1
    /\ UNCHANGED <<alg, heuristic, bi, pc, result>>

\* Guillotine2D.pack, the inner loop body when a free rectangle admits item
\* ii and split_rectangle raises ValueError("Heurística desconocida"): the
\* position, the bin's list and the free list are already changed.
GRaise ==
    /\ pc = "run" /\ alg = "guillotine" /\ bi <= Len(bins) /\ ii <= Len(items)
    /\ g_find_position(free, items[ii]) # None
    /\ ~known_split_key(split_key(heuristic))
    /\ LET pos == g_find_position(free, items[ii])
           item == set_position(items[ii], pos[1], pos[2])
       IN  /\ items' = [items EXCEPT ![ii] = item]
           /\ bins' = [bins EXCEPT ![bi] = add_item(@, ii, item)]
           /\ free' = pop(free, pos[3])
    /\ pc' = "error"
    /\ UNCHANGED <<alg, heuristic, bi, ii, result>>

\* Guillotine2D.pack, the outer loop: the items are exhausted for bin bi,
\* the next bin starts with its full area free and the first item.
GNextBin ==
    /\ pc = "run" /\ alg = "guillotine" /\ bi <= Len(bins) /\ ii > Len(items)
    /\ bi' = bi + 1
    /\ ii' = 1
    /\ free' = IF bi + 1 <= Len(bins) THEN full_rectangle(bins[bi + 1]) ELSE free
    /\ UNCHANGED <<alg, heuristic, items, bins, pc, result>>

(***************************************************************************)
(* MaxRects2D                                                              *)
(***************************************************************************)

\* The heuristic names a caller may configure.
MaxRectsNames ==
    {"best_short_side_fit", "best_long_side_fit", "best_area_fit", "bottom_left",
     "contact_point_rule", "Bottom_Left", "unknown"}

\* str.lower() on the configured names
lower(h) == IF h = "Bottom_Left" THEN "bottom_left" ELSE h

Min(a, b) == IF a <= b THEN a ELSE b

Max(a, b) == IF a >= b THEN a ELSE b

\* MaxRects2D.calculate_contact_score
calculate_contact_score(rx, ry, rwidth, rheight, it) == rwidth + rheight

\* MaxRects2D.evaluate_position returning the contact score itself for
\* contact_point_rule, not its negative.
evaluate_position_contact_not_negated(h, rx, ry, rwidth, rheight, it) ==
    LET leftover_horiz == rwidth - it.width
        leftover_vert == rheight - it.height
        key == lower(h)
    IN  CASE key = "best_short_side_fit" -> Min(leftover_horiz, leftover_vert)
          [] key = "best_long_side_fit" -> Max(leftover_horiz, leftover_vert)
          [] key = "best_area_fit" -> (rwidth * rheight) - (it.width * it.height)
          [] key = "bottom_left" -> ry * 10000 + rx
          [] key = "contact_point_rule" ->
                 calculate_contact_score(rx, ry, rwidth, rheight, it)
          [] OTHER -> Min(leftover_horiz, leftover_vert)

\* MaxRects2D.evaluate_position: a name it does not know scores like
\* best_short_side_fit.
evaluate_position(h, rx, ry, rwidth, rheight, it) ==
    LET leftover_horiz == rwidth - it.width
        leftover_vert == rheight - it.height
        key == lower(h)
    IN  CASE key = "best_short_side_fit" -> Min(leftover_horiz, leftover_vert)
          [] key = "best_long_side_fit" -> Max(leftover_horiz, leftover_vert)
          [] key = "best_area_fit" -> (rwidth * rheight) - (it.width * it.height)
          [] key = "bottom_left" -> ry * 10000 + rx
          [] key = "contact_point_rule" ->
                 0 - calculate_contact_score(rx, ry, rwidth, rheight, it)
          [] OTHER -> Min(leftover_horiz, leftover_vert)

\* MaxRects2D.find_best_position keeping a candidate also when its score
\* equals the best so far, so that the highest index wins among equal scores.
find_best_position_last_wins(h, rects, it) ==
    LET fits == {k \in 1..Len(rects) :
                    it.width <= rects[k][3] /\ it.height <= rects[k][4]}
        score(k) == evaluate_position(h, rects[k][1], rects[k][2],
                                      rects[k][3], rects[k][4], it)
    IN  IF fits = {} THEN None
        ELSE LET best_index == CHOOSE k \in fits :
                     \A m \in fits :
                         score(k) < score(m) \/ (score(k) = score(m) /\ k >= m)
             IN  <<rects[best_index][1], rects[best_index][2], best_index>>

\* MaxRects2D.find_best_position keeping a candidate when its score is
\* strictly greater.
find_best_position_keeps_greater(h, rects, it) ==
    LET fits == {k \in 1..Len(rects) :
                    it.width <= rects[k][3] /\ it.height <= rects[k][4]}
        score(k) == evaluate_position(h, rects[k][1], rects[k][2],
                                      rects[k][3], rects[k][4], it)
    IN  IF fits = {} THEN None
        ELSE LET best_index == CHOOSE k \in fits :
                     \A m \in fits :
                         score(k) > score(m) \/ (score(k) = score(m) /\ k <= m)
             IN  <<rects[best_index][1], rects[best_index][2], best_index>>

\* MaxRects2D.find_best_position: the scan keeps a candidate only when its
\* score is strictly smaller, so the lowest index wins among equal scores.
find_best_position(h, rects, it) ==
    LET fits == {k \in 1..Len(rects) :
                    it.width <= rects[k][3] /\ it.height <= rects[k][4]}
        score(k) == evaluate_position(h, rects[k][1], rects[k][2],
                                      rects[k][3], rects[k][4], it)
    IN  IF fits = {} THEN None
        ELSE LET best_index == CHOOSE k \in fits :
                     \A m \in fits :
                         score(k) < score(m) \/ (score(k) = score(m) /\ k <= m)
             IN  <<rects[best_index][1], rects[best_index][2], best_index>>

\* MaxRects2D.rectangles_intersect answering True only for a free rectangle
\* that starts at the placed rectangle's corner.
rectangles_intersect_same_corner(fr, pr) ==
    fr[1] = pr[1] /\ fr[2] = pr[2]

\* MaxRects2D.rectangles_intersect
rectangles_intersect(fr, pr) ==
    LET fx == fr[1]  fy == fr[2]  fw == fr[3]  fh == fr[4]
        px == pr[1]  py == pr[2]  pw == pr[3]  ph == pr[4]
    IN  ~(fx >= px + pw \/ fx + fw <= px \/ fy >= py + ph \/ fy + fh <= py)

\* MaxRects2D.split_free_rectangle with the section above the placed
\* rectangle starting at py instead of py + ph.
split_free_rectangle_above_from_py(fr, pr) ==
    LET fx == fr[1]  fy == fr[2]  fw == fr[3]  fh == fr[4]
        px == pr[1]  py == pr[2]  pw == pr[3]  ph == pr[4]
        new_rects ==
            (IF py + ph < fy + fh
                THEN <<<<fx, py, fw, (fy + fh) - py>>>> ELSE <<>>)
            \o (IF py > fy THEN <<<<fx, fy, fw, py - fy>>>> ELSE <<>>)
            \o (IF px > fx THEN <<<<fx, fy, px - fx, fh>>>> ELSE <<>>)
            \o (IF px + pw < fx + fw
                THEN <<<<px + pw, fy, (fx + fw) - (px + pw), fh>>>> ELSE <<>>)
        Positive(r) == r[3] > 0 /\ r[4] > 0
    IN  SelectSeq(new_rects, Positive)

\* MaxRects2D.split_free_rectangle without the section below the placed
\* rectangle.
split_free_rectangle_no_below(fr, pr) ==
    LET fx == fr[1]  fy == fr[2]  fw == fr[3]  fh == fr[4]
        px == pr[1]  py == pr[2]  pw == pr[3]  ph == pr[4]
        new_rects ==
            (IF py + ph < fy + fh
                THEN <<<<fx, py + ph, fw, (fy + fh) - (py + ph)>>>> ELSE <<>>)
            \o (IF px > fx THEN <<<<fx, fy, px - fx, fh>>>> ELSE <<>>)
            \o (IF px + pw < fx + fw
                THEN <<<<px + pw, fy, (fx + fw) - (px + pw), fh>>>> ELSE <<>>)
        Positive(r) == r[3] > 0 /\ r[4] > 0
    IN  SelectSeq(new_rects, Positive)

\* MaxRects2D.split_free_rectangle: above, below, left, right, then the filter
\* on positive width and height.
split_free_rectangle(fr, pr) ==
    LET fx == fr[1]  fy == fr[2]  fw == fr[3]  fh == fr[4]
        px == pr[1]  py == pr[2]  pw == pr[3]  ph == pr[4]
        new_rects ==
            (IF py + ph < fy + fh
                THEN <<<<fx, py + ph, fw, (fy + fh) - (py + ph)>>>> ELSE <<>>)
            \o (IF py > fy THEN <<<<fx, fy, fw, py - fy>>>> ELSE <<>>)
            \o (IF px > fx THEN <<<<fx, fy, px - fx, fh>>>> ELSE <<>>)
            \o (IF px + pw < fx + fw
                THEN <<<<px + pw, fy, (fx + fw) - (px + pw), fh>>>> ELSE <<>>)
        Positive(r) == r[3] > 0 /\ r[4] > 0
    IN  SelectSeq(new_rects, Positive)

\* MaxRects2D.prune_free_rectangles dropping, in one call, only the first
\* rectangle that another entry contains.
prune_free_rectangles_first_only(rects) ==
    LET contained(i) ==
            \E j \in 1..Len(rects) :
                /\ i # j
                /\ rects[i][1] >= rects[j][1]
                /\ rects[i][2] >= rects[j][2]
                /\ rects[i][1] + rects[i][3] <= rects[j][1] + rects[j][3]
                /\ rects[i][2] + rects[i][4] <= rects[j][2] + rects[j][4]
        first(i) == contained(i) /\ \A j \in 1..(i - 1) : ~contained(j)
        kept == SelectSeq([k \in 1..Len(rects) |-> k], LAMBDA k : ~first(k))
    IN  [k \in 1..Len(kept) |-> rects[kept[k]]]

\* MaxRects2D.prune_free_rectangles: a rectangle is dropped when another
\* entry of the list (another index) contains it.
prune_free_rectangles(rects) ==
    LET contained(i) ==
            \E j \in 1..Len(rects) :
                /\ i # j
                /\ rects[i][1] >= rects[j][1]
                /\ rects[i][2] >= rects[j][2]
                /\ rects[i][1] + rects[i][3] <= rects[j][1] + rects[j][3]
                /\ rects[i][2] + rects[i][4] <= rects[j][2] + rects[j][4]
        kept == SelectSeq([k \in 1..Len(rects) |-> k], LAMBDA k : ~contained(k))
    IN  [k \in 1..Len(kept) |-> rects[kept[k]]]

\* MaxRects2D.update_free_rectangles, the loop that builds updated_rectangles
RECURSIVE updated_rectangles(_, _)
updated_rectangles(rects, pr) ==
    IF rects = <<>> THEN <<>>
    ELSE (IF rectangles_intersect(Head(rects), pr)
            THEN split_free_rectangle(Head(rects), pr)
            ELSE <<Head(rects)>>)
         \o updated_rectangles(Tail(rects), pr)

\* MaxRects2D.update_free_rectangles
update_free_rectangles(rects, pr) ==
    prune_free_rectangles(updated_rectangles(rects, pr))

\* MaxRects2D.pack, the inner loop body when no free rectangle of the current
\* bin admits item ii.
MRSkip ==
    /\ pc = "run" /\ alg = "max_rects" /\ bi <= Len(bins) /\ ii <= Len(items)
    /\ find_best_position(heuristic, free, items[ii]) = None
    /\ ii' = ii + 1
    /\ UNCHANGED <<alg, heuristic, items, bins, free, bi, pc, result>>

\* MaxRects2D.pack, the inner loop body when a free rectangle admits item ii.
MRPlace ==
    /\ pc = "run" /\ alg = "max_rects" /\ bi <= Len(bins) /\ ii <= Len(items)
    /\ find_best_position(heuristic, free, items[ii]) # None
    /\ LET best_pos == find_best_position(heuristic, free, items[ii])
           item == set_position(items[ii], best_pos[1], best_pos[2])
           placed_rect == <<best_pos[1], best_pos[2], item.width, item.height>>
       IN  /\ items' = [items EXCEPT ![ii] = item]
           /\ bins' = [bins EXCEPT ![bi] = add_item(@, ii, item)]
           /\ free' = update_free_rectangles(free, placed_rect)
    /\ ii' = ii + 1
    /\ UNCHANGED <<alg, heuristic, bi, pc, result>>

\* MaxRects2D.pack, the outer loop: the items are exhausted for bin bi, its
\* free list is pruned once more and stored on the bin, and the next bin
\* starts with its full area free and the first item.
MRNextBin ==
    /\ pc = "run" /\ alg = "max_rects" /\ bi <= Len(bins) /\ ii > Len(items)
    /\ bins' = [bins EXCEPT ![bi].free_rectangles = prune_free_rectangles(free)]
    /\ bi' = bi + 1
    /\ ii' = 1
    /\ free' = IF bi + 1 <= Len(bins) THEN full_rectangle(bins[bi + 1])
                                      ELSE prune_free_rectangles(free)
    /\ UNCHANGED <<alg, heuristic, items, pc, result>>

\* return PackingResult(bins=bins, metrics=...) of Guillotine2D and MaxRects2D
FreeReturn ==
    /\ pc = "run" /\ alg \in {"guillotine", "max_rects"} /\ bi > Len(bins)
    /\ pc' = "done"
    /\ UNCHANGED <<alg, heuristic, items, bins, free, bi, ii, result>>

(***************************************************************************)
(* Inputs and specifications                                               *)
(***************************************************************************)

Dims == 1..MaxDim

\* The item sequences a caller builds: up to MaxItems fresh items.
InputItems ==
    UNION {[1..n -> {Item(w, h) : w \in Dims, h \in Dims}] : n \in 0..MaxItems}

\* The bin sequences a caller builds: up to MaxBins bins with empty item lists.
InputBins ==
    UNION {[1..n -> {Bin(w, h) : w \in Dims, h \in Dims}] : n \in 0..MaxBins}

\* FirstFit2D().pack(items, bins) or BottomLeft2D().pack(items, bins), also
\* as BinManager.pack calls it, at the entry of its loop.
Init ==
    /\ alg \in {"first_fit", "bottom_left"}
    /\ heuristic = "none"
    /\ items \in InputItems
    /\ bins \in InputBins
    /\ free = <<>>
    /\ bi = 1
    /\ ii = 1
    /\ pc = "run"
    /\ result = None

Next ==
    \/ BLPlace
    \/ BLOverflow
    \/ BLRaise
    \/ FFPlace
    \/ FFOverflow
    \/ FFRaise
    \/ Return

Spec == Init /\ [][Next]_vars

FreeDims == 1..MaxFreeDim

FreeInputItems ==
    UNION {[1..n -> {Item(w, h) : w \in FreeDims, h \in FreeDims}] : n \in 0..MaxItems}

FreeInputBins ==
    UNION {[1..n -> {Bin(w, h) : w \in FreeDims, h \in FreeDims}] : n \in 0..MaxFreeBins}

\* Guillotine2D(heuristic).pack(items, bins) at the entry of its loops: the
\* first bin, when there is one, starts with its full area free.
InitG ==
    /\ alg = "guillotine"
    /\ heuristic \in GuillotineNames
    /\ items \in FreeInputItems
    /\ bins \in FreeInputBins
    /\ free = IF bins # <<>> THEN full_rectangle(bins[1]) ELSE <<>>
    /\ bi = 1
    /\ ii = 1
    /\ pc = "run"
    /\ result = None

NextG ==
    \/ GSkip
    \/ GPlace
    \/ GRaise
    \/ GNextBin
    \/ FreeReturn

SpecG == InitG /\ [][NextG]_vars

\* MaxRects2D(heuristic).pack(items, [bin]) with one bin, as the tests call
\* it, at the entry of its loops.
InitMR ==
    /\ alg = "max_rects"
    /\ heuristic \in MaxRectsNames
    /\ items \in InputItems
    /\ bins \in [1..1 -> {Bin(w, h) : w \in Dims, h \in Dims}]
    /\ free = full_rectangle(bins[1])
    /\ bi = 1
    /\ ii = 1
    /\ pc = "run"
    /\ result = None

NextMR ==
    \/ MRSkip
    \/ MRPlace
    \/ MRNextBin
    \/ FreeReturn

SpecMR == InitMR /\ [][NextMR]_vars

\* MaxRects2D(heuristic).pack(items, bins) with any number of bins.
InitMRBins ==
    /\ alg = "max_rects"
    /\ heuristic \in MaxRectsNames
    /\ items \in FreeInputItems
    /\ bins \in FreeInputBins
    /\ free = IF bins # <<>> THEN full_rectangle(bins[1]) ELSE <<>>
    /\ bi = 1
    /\ ii = 1
    /\ pc = "run"
    /\ result = None

SpecMRBins == InitMRBins /\ [][NextMR]_vars

\* MaxRects2D.prune_free_rectangles called on its own, on any list of up to
\* MaxPruneLen rectangles (duplicates and nested chains included) and then
\* once more on its result.  free is the argument, bins[1].free_rectangles
\* the returned list, pc the position: "call", "returned", "returned_again".
\* The rectangles lie in a bin of side MaxDim and start at 0 or 1 on each axis.
PruneRectangles ==
    {r \in {<<x, y, w, h>> : x \in 0..1, y \in 0..1, w \in Dims, h \in Dims} :
        r[1] + r[3] <= MaxDim /\ r[2] + r[4] <= MaxDim}

InitPrune ==
    /\ alg = "prune_free_rectangles"
    /\ heuristic = "none"
    /\ items = <<>>
    /\ bins = <<Bin(MaxDim, MaxDim)>>
    /\ \E n \in 0..MaxPruneLen : free \in [1..n -> PruneRectangles]
    /\ bi = 1
    /\ ii = 1
    /\ pc = "call"
    /\ result = None

\* pruned = self.prune_free_rectangles(S)
PruneCall ==
    /\ pc = "call" /\ alg = "prune_free_rectangles"
    /\ bins' = [bins EXCEPT ![1].free_rectangles = prune_free_rectangles(free)]
    /\ pc' = "returned"
    /\ UNCHANGED <<alg, heuristic, items, free, bi, ii, result>>

\* pruned = self.prune_free_rectangles(pruned)
PruneAgain ==
    /\ pc = "returned" /\ alg = "prune_free_rectangles"
    /\ bins' = [bins EXCEPT ![1].free_rectangles =
                                prune_free_rectangles(bins[1].free_rectangles)]
    /\ pc' = "returned_again"
    /\ UNCHANGED <<alg, heuristic, items, free, bi, ii, result>>

NextPrune ==
    \/ PruneCall
    \/ PruneAgain

SpecPrune == InitPrune /\ [][NextPrune]_vars

\* tests/test_bottomleft.py, setUp: the 5x5 base bin and the items A (2x3),
\* B (3x2), C (1x1).
ScenarioBin == Bin(5, 5)

ScenarioItems == <<Item(2, 3), Item(3, 2), Item(1, 1)>>

\* BottomLeft2D().pack(items, [base_bin]) on the test's bin, with up to
\* MaxItems items of the test's sizes in any order; the test's own list is
\* one of them.
InitScenario ==
    /\ alg = "bottom_left"
    /\ heuristic = "none"
    /\ \E n \in 0..MaxItems : items \in [1..n -> Range(ScenarioItems)]
    /\ bins = <<ScenarioBin>>
    /\ free = <<>>
    /\ bi = 1
    /\ ii = 1
    /\ pc = "run"
    /\ result = None

NextScenario ==
    \/ BLPlace
    \/ BLOverflow
    \/ Return

SpecScenario == InitScenario /\ [][NextScenario]_vars

\* Guillotine2D.split_rectangle called on its own: free[1] is the consumed
\* rectangle, items[1] an item that fits it, positioned at its corner as
\* find_position returns it, bins[1].free_rectangles the returned list and pc
\* the position, "call" or "returned".
SplitRectangles ==
    {<<x, y, w, h>> : x \in 0..1, y \in 0..1, w \in FreeDims, h \in FreeDims}

InitSplit ==
    /\ alg = "split_rectangle"
    /\ heuristic \in {"default", "alternative", "shorter_side", "longer_side"}
    /\ \E rect \in SplitRectangles :
         /\ free = <<rect>>
         /\ \E w \in 1..rect[3], h \in 1..rect[4] :
                items = <<set_position(Item(w, h), rect[1], rect[2])>>
    /\ bins = <<Bin(MaxFreeDim + 1, MaxFreeDim + 1)>>
    /\ bi = 1
    /\ ii = 1
    /\ pc = "call"
    /\ result = None

\* new_rects = self.split_rectangle(used_rect, item, x, y)
SplitCall ==
    /\ pc = "call" /\ alg = "split_rectangle"
    /\ bins' = [bins EXCEPT ![1].free_rectangles =
                    split_rectangle(heuristic, free[1], items[1],
                                    items[1].x, items[1].y)]
    /\ pc' = "returned"
    /\ UNCHANGED <<alg, heuristic, items, free, bi, ii, result>>

NextSplit == SplitCall

SpecSplit == InitSplit /\ [][NextSplit]_vars

\* MaxRects2D.find_best_position called on its own, under every heuristic
\* name, on any list of up to MaxFindLen free rectangles and one item.  free
\* is the argument, items[1] the item; when the call has returned a
\* position, pc is "returned", ii is best_index (counted from 1) and the
\* item carries the returned (x, y); when it has returned None, pc is
\* "returned_none".
FindRectangles == PruneRectangles

InitFind ==
    /\ alg = "find_best_position"
    /\ heuristic \in MaxRectsNames
    /\ items \in [1..1 -> {Item(w, h) : w \in Dims, h \in Dims}]
    /\ bins = <<Bin(MaxDim, MaxDim)>>
    /\ \E n \in 0..MaxFindLen : free \in [1..n -> FindRectangles]
    /\ bi = 1
    /\ ii = 1
    /\ pc = "call"
    /\ result = None

\* best_pos = self.find_best_position(free_rectangles, item), a position
FindCall ==
    /\ pc = "call" /\ alg = "find_best_position"
    /\ find_best_position(heuristic, free, items[1]) # None
    /\ LET best_pos == find_best_position(heuristic, free, items[1])
       IN  /\ items' = [items EXCEPT ![1] = set_position(@, best_pos[1], best_pos[2])]
           /\ ii' = best_pos[3]
    /\ pc' = "returned"
    /\ UNCHANGED <<alg, heuristic, bins, free, bi, result>>

\* best_pos = self.find_best_position(free_rectangles, item), None
FindCallNone ==
    /\ pc = "call" /\ alg = "find_best_position"
    /\ find_best_position(heuristic, free, items[1]) = None
    /\ pc' = "returned_none"
    /\ UNCHANGED <<alg, heuristic, items, bins, free, bi, ii, result>>

NextFind ==
    \/ FindCall
    \/ FindCallNone

SpecFind == InitFind /\ [][NextFind]_vars

\* One turn of the loop of MaxRects2D.update_free_rectangles on its own:
\* free[1] is the free rectangle fr, items[1] the placed item, whose
\* rectangle is pr, anywhere on the grid.  bins[1].free_rectangles is what
\* the turn adds to updated_rectangles, and pc tells how: "split" when fr
\* and pr intersect, "kept" when they do not.
placed_rect(it) == <<it.x, it.y, it.width, it.height>>

InitUpdate ==
    /\ alg = "update_free_rectangles"
    /\ heuristic = "none"
    /\ \E x \in 0..1, y \in 0..1, w \in FreeDims, h \in FreeDims :
           free = <<<<x, y, w, h>>>>
    /\ \E x \in 0..MaxFreeDim, y \in 0..MaxFreeDim, w \in Dims, h \in Dims :
           items = <<set_position(Item(w, h), x, y)>>
    /\ bins = <<Bin(MaxFreeDim + MaxDim, MaxFreeDim + MaxDim)>>
    /\ bi = 1
    /\ ii = 1
    /\ pc = "call"
    /\ result = None

\* updated_rectangles.extend(self.split_free_rectangle(fr, placed_rect))
UpdateSplit ==
    /\ pc = "call" /\ alg = "update_free_rectangles"
    /\ rectangles_intersect(free[1], placed_rect(items[1]))
    /\ bins' = [bins EXCEPT ![1].free_rectangles =
                    split_free_rectangle(free[1], placed_rect(items[1]))]
    /\ pc' = "split"
    /\ UNCHANGED <<alg, heuristic, items, free, bi, ii, result>>

\* updated_rectangles.append(fr)
UpdateKeep ==
    /\ pc = "call" /\ alg = "update_free_rectangles"
    /\ ~rectangles_intersect(free[1], placed_rect(items[1]))
    /\ bins' = [bins EXCEPT ![1].free_rectangles = <<free[1]>>]
    /\ pc' = "kept"
    /\ UNCHANGED <<alg, heuristic, items, free, bi, ii, result>>

NextUpdate ==
    \/ UpdateSplit
    \/ UpdateKeep

SpecUpdate == InitUpdate /\ [][NextUpdate]_vars

\* The identifiers a caller gives the bins it passes: the ones pack builds
\* for overflow bins, and one of another form.
BinIds == {"bin_1", "bin_2", "base"}

\* BottomLeft2D().pack(items, bins) and FirstFit2D().pack(items, bins) on
\* bins with any of these identifiers.
InitIds ==
    /\ alg \in {"first_fit", "bottom_left"}
    /\ heuristic = "none"
    /\ items \in InputItems
    /\ \E n \in 0..MaxBins :
           bins \in [1..n -> {BinWithId(i, w, h) : i \in BinIds, w \in Dims, h \in Dims}]
    /\ free = <<>>
    /\ bi = 1
    /\ ii = 1
    /\ pc = "run"
    /\ result = None

SpecIds == InitIds /\ [][Next]_vars

\* BottomLeft2D.rectangles_overlap and MaxRects2D.rectangles_intersect called
\* on their own on the same pair of rectangles, in both argument orders.
\* free holds the two rectangles; result collects the four answers and pc is
\* the position: "call", "overlap_returned", "returned".
OverlapRectangles ==
    {<<x, y, w, h>> : x \in 0..MaxDim, y \in 0..MaxDim, w \in Dims, h \in Dims}

InitOverlap ==
    /\ alg = "rectangles_overlap"
    /\ heuristic = "none"
    /\ items = <<>>
    /\ bins = <<>>
    /\ free \in [1..2 -> OverlapRectangles]
    /\ bi = 1
    /\ ii = 1
    /\ pc = "call"
    /\ result = None

OverlapCall ==
    /\ pc = "call" /\ alg = "rectangles_overlap"
    /\ LET a == free[1]  b == free[2]
       IN  result' =
             [overlap |-> rectangles_overlap(a[1], a[2], a[3], a[4],
                                             b[1], b[2], b[3], b[4]),
              overlap_swapped |-> rectangles_overlap(b[1], b[2], b[3], b[4],
                                                     a[1], a[2], a[3], a[4])]
    /\ pc' = "overlap_returned"
    /\ UNCHANGED <<alg, heuristic, items, bins, free, bi, ii>>

IntersectCall ==
    /\ pc = "overlap_returned" /\ alg = "rectangles_overlap"
    /\ result' =
         [overlap |-> result.overlap,
          overlap_swapped |-> result.overlap_swapped,
          intersect |-> rectangles_intersect(free[1], free[2]),
          intersect_swapped |-> rectangles_intersect(free[2], free[1])]
    /\ pc' = "returned"
    /\ UNCHANGED <<alg, heuristic, items, bins, free, bi, ii>>

NextOverlap == OverlapCall \/ IntersectCall

SpecOverlap == InitOverlap /\ [][NextOverlap]_vars

\* MaxRects2D.find_best_position with heuristic bottom_left called on two
\* free rectangles of a bin wider than the factor 10000 of the score: the
\* rectangles start at the left edge, or next to an item about 10000 wide.
ScoreXs == {0, 1, 10000 - 1, 10000, 10000 + 1}

ScoreRectangles ==
    {<<x, y, w, h>> : x \in ScoreXs, y \in 0..1, w \in Dims, h \in Dims}

InitScore ==
    /\ alg = "find_best_position"
    /\ heuristic = "bottom_left"
    /\ items \in [1..1 -> {Item(w, h) : w \in Dims, h \in Dims}]
    /\ bins = <<Bin(10000 + 1 + MaxDim, 1 + MaxDim)>>
    /\ free \in [1..2 -> ScoreRectangles]
    /\ bi = 1
    /\ ii = 1
    /\ pc = "call"
    /\ result = None

SpecScore == InitScore /\ [][NextFind]_vars

(***************************************************************************)
(* BinManager (binpacking/models/manager.py).  alg is self.algorithm: the  *)
(* strategy the stored instance belongs to, "none" for None and "unset"    *)
(* before the constructor ran; pc is "new" before the constructor,         *)
(* "ready" after a call that returned, "raised" after a call on the        *)
(* manager that raised ValueError, and "error" when the constructor        *)
(* raised, so that no manager exists.                                      *)
(***************************************************************************)

\* The strategies whose instances a caller can pass.
Strategies == {"first_fit", "bottom_left", "guillotine", "max_rects"}

\* The algorithm strings a caller may pass.
AlgorithmNames ==
    {"first_fit", "bottom_left", "guillotine", "max_rects", "Bottom_Left", "unknown"}

\* The algorithm argument: None, a string, or a strategy instance.
AlgorithmArgs ==
    {[kind |-> "none"]}
    \cup {[kind |-> "str", name |-> n] : n \in AlgorithmNames}
    \cup {[kind |-> "instance", of |-> a] : a \in Strategies}

\* algorithm.lower().replace("_", "").replace(" ", "")
algo_key(n) ==
    CASE n = "first_fit" -> "firstfit"
      [] n \in {"bottom_left", "Bottom_Left"} -> "bottomleft"
      [] n = "max_rects" -> "maxrects"
      [] OTHER -> n

\* BinManager.__init__: None selects BottomLeft2D, a string is looked up by
\* its key and raises when it is not "bottomleft", an instance is stored.
MgrInit(a) ==
    /\ pc = "new"
    /\ IF a.kind = "none"
         THEN alg' = "bottom_left" /\ pc' = "ready"
         ELSE IF a.kind = "str"
                THEN IF algo_key(a.name) = "bottomleft"
                       THEN alg' = "bottom_left" /\ pc' = "ready"
                       ELSE alg' = alg /\ pc' = "error"
                ELSE alg' = a.of /\ pc' = "ready"
    /\ bins' = <<>>
    /\ items' = <<>>
    /\ result' = None
    /\ UNCHANGED <<heuristic, free, bi, ii>>

\* BinManager.set_algorithm: a string is looked up by its key and raises when
\* it is not "bottomleft"; anything else, None included, is stored.
MgrSetAlgorithm(a) ==
    /\ pc \in {"ready", "raised"}
    /\ IF a.kind = "str"
         THEN IF algo_key(a.name) = "bottomleft"
                THEN alg' = "bottom_left" /\ pc' = "ready"
                ELSE alg' = alg /\ pc' = "raised"
         ELSE /\ alg' = (IF a.kind = "none" THEN "none" ELSE a.of)
              /\ pc' = "ready"
    /\ UNCHANGED <<heuristic, items, bins, free, bi, ii, result>>

\* BinManager.add_bin
MgrAddBin(b) ==
    /\ pc \in {"ready", "raised"}
    /\ Len(bins) < MaxBins
    /\ bins' = Append(bins, b)
    /\ pc' = "ready"
    /\ UNCHANGED <<alg, heuristic, items, free, bi, ii, result>>

\* BinManager.add_item
MgrAddItem(it) ==
    /\ pc \in {"ready", "raised"}
    /\ Len(items) < MaxItems
    /\ items' = Append(items, it)
    /\ pc' = "ready"
    /\ UNCHANGED <<alg, heuristic, bins, free, bi, ii, result>>

\* No BinManager has been constructed yet.
InitMgr ==
    /\ alg = "unset"
    /\ heuristic = "none"
    /\ items = <<>>
    /\ bins = <<>>
    /\ free = <<>>
    /\ bi = 1
    /\ ii = 1
    /\ pc = "new"
    /\ result = None

NextMgr ==
    \/ \E a \in AlgorithmArgs : MgrInit(a)
    \/ \E a \in AlgorithmArgs : MgrSetAlgorithm(a)
    \/ \E w \in 1..MaxDim, h \in 1..MaxDim : MgrAddBin(Bin(w, h))
    \/ \E w \in 1..MaxDim, h \in 1..MaxDim : MgrAddItem(Item(w, h))

SpecMgr == InitMgr /\ [][NextMgr]_vars

\* The PackingResult the n-th pack call that returned has built.  Its bins
\* attribute is the manager's own bin list, so it is told apart from other
\* results by the call that built it only.
PackingResult(n) == [call |-> n]

\* The number of pack calls that have returned on the manager.
packs_returned == IF result = None THEN 0 ELSE result.call

\* BinManager.pack, the entry: without an algorithm it raises ValueError,
\* otherwise self.algorithm.pack(self.items, self.bins) starts at the first
\* item, on the items and bins as earlier calls have left them.
MgrPack ==
    /\ pc \in {"ready", "raised"}
    /\ packs_returned < MaxPacks
    /\ IF alg = "none" THEN pc' = "raised" ELSE pc' = "run"
    /\ ii' = 1
    /\ UNCHANGED <<alg, heuristic, items, bins, free, bi, result>>

\* BinManager.pack storing the result of self.algorithm.pack that raised
\* before it re-raises.
MgrPackRaisedStoresResult ==
    /\ pc = "error" /\ alg \in Strategies
    /\ pc' = "raised"
    /\ result' = PackingResult(packs_returned + 1)
    /\ UNCHANGED <<alg, heuristic, items, bins, free, bi, ii>>

\* BinManager.pack, self.algorithm.pack raised: the exception passes through
\* and the assignment to self.result is not reached.
MgrPackRaised ==
    /\ pc = "error" /\ alg \in Strategies
    /\ pc' = "raised"
    /\ UNCHANGED <<alg, heuristic, items, bins, free, bi, ii, result>>

\* BinManager.pack, self.algorithm.pack returned: the result is stored.
MgrPackReturn ==
    /\ pc = "done"
    /\ result' = PackingResult(packs_returned + 1)
    /\ pc' = "ready"
    /\ UNCHANGED <<alg, heuristic, items, bins, free, bi, ii>>

\* BinManager.report: raises ValueError when self.result is None.
MgrReport ==
    /\ pc \in {"ready", "raised"}
    /\ pc' = IF result = None THEN "raised" ELSE "ready"
    /\ UNCHANGED <<alg, heuristic, items, bins, free, bi, ii, result>>

\* BinManager.plot: raises ValueError when self.result is None.
MgrPlot ==
    /\ pc \in {"ready", "raised"}
    /\ pc' = IF result = None THEN "raised" ELSE "ready"
    /\ UNCHANGED <<alg, heuristic, items, bins, free, bi, ii, result>>

\* The algorithm arguments of the packing managers: None, a string, or an
\* instance of a strategy of the manager's own package.
PackAlgorithmArgs ==
    {a \in AlgorithmArgs : a.kind = "instance" => a.of \in {"first_fit", "bottom_left"}}

\* A manager from its construction on, with registrations, pack calls (in
\* the steps of the strategy's loops), report and plot in any order.
NextMgrPack ==
    \/ \E a \in PackAlgorithmArgs : MgrInit(a)
    \/ \E a \in PackAlgorithmArgs : MgrSetAlgorithm(a)
    \/ \E w \in Dims : MgrAddBin(Bin(w, MaxDim))
    \/ \E w \in Dims, h \in Dims : Len(items) < MaxRunItems /\ MgrAddItem(Item(w, h))
    \/ MgrPack
    \/ BLPlace
    \/ BLOverflow
    \/ BLRaise
    \/ FFPlace
    \/ FFOverflow
    \/ FFRaise
    \/ Return
    \/ MgrPackRaised
    \/ MgrPackReturn
    \/ MgrReport
    \/ MgrPlot

SpecMgrPack == InitMgr /\ [][NextMgrPack]_vars

\* Two runs of strategy.pack(items, bins) from equal fresh inputs, one after
\* the other, for each strategy and heuristic name.  result.items and
\* result.bins are the inputs both runs are started with; result.first is
\* None during the first run and afterwards records how the first run ended:
\* its items (with their positions), its bins and whether it returned
\* ("done") or raised ("error").
RunHeuristics(a) ==
    CASE a = "guillotine" -> GuillotineNames
      [] a = "max_rects" -> MaxRectsNames
      [] OTHER -> {"none"}

\* The free list at the entry of the loops of pack.
initial_free(a, bs) ==
    IF a \in {"guillotine", "max_rects"} /\ bs # <<>>
        THEN full_rectangle(bs[1]) ELSE <<>>

InitRuns ==
    /\ alg \in Strategies
    /\ heuristic \in RunHeuristics(alg)
    /\ \E n \in 0..MaxRunItems :
           items \in [1..n -> {Item(w, h) : w \in Dims, h \in Dims}]
    /\ \E n \in 0..MaxBins : bins \in [1..n -> {Bin(w, MaxDim) : w \in Dims}]
    /\ free = initial_free(alg, bins)
    /\ bi = 1
    /\ ii = 1
    /\ pc = "run"
    /\ result = [items |-> items, bins |-> bins, first |-> None]

\* The first run has returned or raised; the second starts from the inputs
\* the first was started with.
RunAgain ==
    /\ pc \in {"done", "error"}
    /\ result.first = None
    /\ result' = [result EXCEPT !.first = [items |-> items, bins |-> bins, pc |-> pc]]
    /\ items' = result.items
    /\ bins' = result.bins
    /\ free' = initial_free(alg, result.bins)
    /\ bi' = 1
    /\ ii' = 1
    /\ pc' = "run"
    /\ UNCHANGED <<alg, heuristic>>

NextRuns ==
    \/ BLPlace
    \/ BLOverflow
    \/ BLRaise
    \/ FFPlace
    \/ FFOverflow
    \/ FFRaise
    \/ Return
    \/ GSkip
    \/ GPlace
    \/ GRaise
    \/ GNextBin
    \/ MRSkip
    \/ MRPlace
    \/ MRNextBin
    \/ FreeReturn
    \/ RunAgain

SpecRuns == InitRuns /\ [][NextRuns]_vars

\* A BinManager with BottomLeft2D on which add_item and add_bin have
\* registered the items and bins, and on which pack is then called up to
\* MaxPacks times with nothing registered in between.
InitRepack ==
    /\ alg = "bottom_left"
    /\ heuristic = "none"
    /\ \E n \in 0..MaxRunItems : items \in [1..n -> {Item(w, h) : w \in Dims, h \in Dims}]
    /\ bins \in InputBins
    /\ free = <<>>
    /\ bi = 1
    /\ ii = 1
    /\ pc = "ready"
    /\ result = None

NextRepack ==
    \/ MgrPack
    \/ BLPlace
    \/ BLOverflow
    \/ BLRaise
    \/ Return
    \/ MgrPackRaised
    \/ MgrPackReturn

SpecRepack == InitRepack /\ [][NextRepack]_vars

(***************************************************************************)
(* Properties                                                              *)
(***************************************************************************)

\* The overlap test of tests/test_bottomleft.py, test_no_overlap: two items
\* overlap unless one lies entirely left of, right of, below or above the other.
ItemsOverlap(item1, item2) ==
    ~(\/ item1.x + item1.width <= item2.x
      \/ item2.x + item2.width <= item1.x
      \/ item1.y + item1.height <= item2.y
      \/ item2.y + item2.height <= item1.y)

\* No two entries of the bin's item list overlap.
NoOverlapIn(b) ==
    \A i \in 1..Len(b.items) : \A j \in (i + 1)..Len(b.items) :
        ~ItemsOverlap(items[b.items[i]], items[b.items[j]])

\* The bounds test of tests/test_bottomleft.py,
\* test_item_positions_within_bounds, for the entries of one bin.
WithinBounds(b) ==
    \A k \in 1..Len(b.items) :
        LET item == items[b.items[k]]
        IN  /\ item.x >= 0
            /\ item.y >= 0
            /\ item.x + item.width <= b.width
            /\ item.y + item.height <= b.height

\* The bins whose item list refers to item i.
BinsHolding(i) == {b \in 1..Len(bins) : i \in Range(bins[b].items)}

\* C1: in a BottomLeft2D.pack run on bins that start empty, no two entries
\* of any bin's item list overlap (sharing an edge is allowed).
C1_BottomLeftNoOverlap ==
    alg = "bottom_left" => \A b \in 1..Len(bins) : NoOverlapIn(bins[b])

\* C1 witness: a finished Bottom-Left run with three items in one bin.
C1_Witness ==
    /\ alg = "bottom_left" /\ pc = "done"
    /\ \E b \in 1..Len(bins) : Len(bins[b].items) >= 3

\* C2: in a BottomLeft2D.pack run on bins that start empty, every entry of
\* every bin's item list lies inside its bin, overflow bins included.
C2_BottomLeftWithinBounds ==
    alg = "bottom_left" => \A b \in 1..Len(bins) : WithinBounds(bins[b])

\* C2 witness: a finished Bottom-Left run in which an appended bin (there are
\* more bins than the caller can pass) holds an item, next to a first bin that
\* holds one away from the origin.
C2_Witness ==
    /\ alg = "bottom_left" /\ pc = "done"
    /\ Len(bins) > MaxBins /\ bins[Len(bins)].items # <<>>
    /\ \E k \in 1..Len(bins[1].items) : items[bins[1].items[k]].x > 0

\* C3: in a MaxRects2D.pack run on one bin that starts empty, under every
\* heuristic name, no two entries of the bin's item list overlap.
C3_MaxRectsNoOverlap ==
    (alg = "max_rects" /\ Len(bins) = 1) => NoOverlapIn(bins[1])

\* C3 witness: a finished single-bin Max-Rects run that placed three items.
C3_Witness ==
    /\ alg = "max_rects" /\ pc = "done" /\ Len(bins) = 1
    /\ Len(bins[1].items) >= 3

\* C4: in a Guillotine2D.pack run on one bin that starts empty, under each of
\* the four split rules, no two entries of the bin's item list overlap.
C4_GuillotineNoOverlap ==
    (/\ alg = "guillotine" /\ Len(bins) = 1
     /\ heuristic \in {"default", "alternative", "shorter_side", "longer_side"})
        => NoOverlapIn(bins[1])

\* C5: in a Guillotine2D.pack run over several bins an item is placed at most
\* once: it is in at most one bin's item list and set_position is called on
\* it at most once.
C5_PlacedAtMostOnce ==
    alg \in {"guillotine", "max_rects"} =>
        \A i \in 1..Len(items) :
            Cardinality(BinsHolding(i)) <= 1 /\ items[i].sets <= 1

\* C6: whenever FirstFit2D.pack or BottomLeft2D.pack appends a bin, the new
\* bin has the first bin's dimensions and its item list is exactly the item
\* being processed, which is at (0,0), whatever the item's size.
C6_OverflowHoldsItem ==
    [][(alg \in {"first_fit", "bottom_left"} /\ Len(bins') = Len(bins) + 1) =>
          LET created == bins'[Len(bins')]
          IN  /\ created.width = bins[1].width
              /\ created.height = bins[1].height
              /\ created.items = <<ii>>
              /\ items'[ii].x = 0 /\ items'[ii].y = 0]_vars

\* C7: when a Guillotine2D.pack or MaxRects2D.pack run on at least one bin has
\* returned, every input item is in some bin's item list (an item no bin
\* admits being in an appended bin).
C7_EveryItemInSomeBin ==
    (alg \in {"guillotine", "max_rects"} /\ pc = "done" /\ bins # <<>>) =>
        \A i \in 1..Len(items) : BinsHolding(i) # {}

\* C8: BottomLeft2D.pack and FirstFit2D.pack on an empty bin list and at
\* least one item raise: such a run never returns, its only step is the raise,
\* and when the error is raised the bin list is empty and set_position has
\* been called on no item.
C8_NoBaseBinRaises ==
    /\ (bins = <<>> /\ items # <<>>) =>
          /\ pc # "done"
          /\ pc = "run" =>
                /\ ENABLED (BLRaise \/ FFRaise)
                /\ ~ENABLED (BLPlace \/ BLOverflow \/ FFPlace \/ FFOverflow \/ Return)
    /\ pc = "error" =>
          /\ bins = <<>>
          /\ items # <<>>
          /\ \A i \in 1..Len(items) :
                items[i].sets = 0 /\ items[i].x = 0 /\ items[i].y = 0

\* C8 witness: the error has been raised on an empty bin list.
C8_Witness == pc = "error" /\ bins = <<>> /\ Len(items) >= 2

\* C9: a Guillotine2D configured with a name outside the four split rules
\* raises on every input with an item and a bin, and when it raises no
\* position has been set, no bin holds an item and the free list is untouched.
C9_UnknownSplitRaisesFirst ==
    (alg = "guillotine" /\ ~known_split_key(split_key(heuristic))) =>
        /\ (items # <<>> /\ bins # <<>>) => pc # "done"
        /\ pc = "error" =>
              /\ \A i \in 1..Len(items) : items[i].sets = 0
              /\ \A b \in 1..Len(bins) : bins[b].items = <<>>
              /\ free = full_rectangle(bins[bi])

\* C10: a MaxRects2D configured with a name outside its five heuristics never
\* packs an item: no position is set and no bin holds an item.
C10_UnknownHeuristicPacksNothing ==
    (/\ alg = "max_rects"
     /\ lower(heuristic) \notin {"best_short_side_fit", "best_long_side_fit",
                                 "best_area_fit", "bottom_left", "contact_point_rule"})
        => /\ \A i \in 1..Len(items) : items[i].sets = 0
           /\ \A b \in 1..Len(bins) : bins[b].items = <<>>
           /\ (items # <<>> /\ bins # <<>>) => pc # "done"

\* C11: every step of the BinManager constructor or of set_algorithm with one
\* of the strings first_fit, bottom_left, guillotine, max_rects returns and
\* selects that strategy; with an unknown string the constructor raises, and
\* set_algorithm raises and leaves the selected algorithm as it was.
C11_ManagerAcceptsFourNames ==
    [][/\ \A n \in Strategies :
            (\/ MgrInit([kind |-> "str", name |-> n])
             \/ MgrSetAlgorithm([kind |-> "str", name |-> n]))
                => (pc' = "ready" /\ alg' = n)
       /\ MgrInit([kind |-> "str", name |-> "unknown"]) => pc' = "error"
       /\ MgrSetAlgorithm([kind |-> "str", name |-> "unknown"])
            => (pc' = "raised" /\ alg' = alg)]_vars

\* The unit cells of the rectangle <<x, y, width, height>>; all lengths are
\* integers, so a region is the set of the unit cells it contains.
Cells(r) ==
    {<<cx, cy>> : cx \in r[1]..(r[1] + r[3] - 1), cy \in r[2]..(r[2] + r[4] - 1)}

\* The cells of all rectangles of a list.
CellsOfAll(rects) == UNION {Cells(rects[k]) : k \in 1..Len(rects)}

\* The cells covered by the entries of the bin's item list.
ItemCells(b) ==
    UNION {Cells(<<items[b.items[k]].x, items[b.items[k]].y,
                   items[b.items[k]].width, items[b.items[k]].height>>) :
           k \in 1..Len(b.items)}

\* The cells of the bin no entry of its item list covers.
UnoccupiedCells(b) == Cells(<<0, 0, b.width, b.height>>) \ ItemCells(b)

\* C12: in a single-bin MaxRects2D.pack run the union of the free rectangles
\* is exactly the bin's unoccupied area after every placement (no free
\* rectangle meets a placed item, no unoccupied cell is missed), and when pack
\* has returned the area of that union plus the area of the placed items is
\* the bin's area.
C12_MaxRectsFreeCoversUnoccupied ==
    (alg = "max_rects" /\ Len(bins) = 1) =>
        /\ CellsOfAll(free) = UnoccupiedCells(bins[1])
        /\ pc = "done" =>
             /\ CellsOfAll(bins[1].free_rectangles) = UnoccupiedCells(bins[1])
             /\ Cardinality(CellsOfAll(bins[1].free_rectangles))
                    + Cardinality(ItemCells(bins[1]))
                  = bins[1].width * bins[1].height

\* C12 witness: a finished single-bin run over two or more items that placed
\* one and left free rectangles that overlap each other.
C12_Witness ==
    /\ alg = "max_rects" /\ pc = "done" /\ Len(bins) = 1
    /\ Len(items) >= 2 /\ Len(bins[1].items) >= 1
    /\ bins[1].free_rectangles = free
    /\ \E i, j \in 1..Len(free) : i # j /\ Cells(free[i]) \cap Cells(free[j]) # {}

\* C13: in a single-bin Guillotine2D.pack run under each of the four split
\* rules, after every placement the free rectangles cover exactly the bin's
\* unoccupied area: none of them overlaps a placed item, and free rectangles
\* and placed items together make up the whole bin.
C13_GuillotineFreeCoversUnoccupied ==
    (/\ alg = "guillotine" /\ Len(bins) = 1 /\ bi = 1
     /\ known_split_key(split_key(heuristic))) =>
        /\ CellsOfAll(free) \cap ItemCells(bins[1]) = {}
        /\ CellsOfAll(free) \cup ItemCells(bins[1])
             = Cells(<<0, 0, bins[1].width, bins[1].height>>)

\* C14: prune_free_rectangles is idempotent: pruning the pruned list again
\* returns the list the first call returned, for any list of rectangles,
\* duplicates and nested chains included.
C14_PruneIdempotent ==
    /\ (alg = "prune_free_rectangles" /\ pc = "returned_again") =>
           bins[1].free_rectangles = prune_free_rectangles(free)
    /\ alg = "prune_free_rectangles" =>
           prune_free_rectangles(prune_free_rectangles(free))
             = prune_free_rectangles(free)

\* C14 witness: the second call has returned on an input of three different
\* rectangles that form a nested chain, of which the first call kept one.
C14_Witness ==
    /\ alg = "prune_free_rectangles" /\ pc = "returned_again"
    /\ Len(free) = 3
    /\ Cells(free[1]) \subseteq Cells(free[2]) /\ free[1] # free[2]
    /\ Cells(free[2]) \subseteq Cells(free[3]) /\ free[2] # free[3]
    /\ bins[1].free_rectangles = <<free[3]>>

\* C15: prune_free_rectangles removes only redundant rectangles: every
\* rectangle of the input is contained in a rectangle of the output, so the
\* output covers what the input covers, lists holding a rectangle twice
\* included.
C15_PruneKeepsArea ==
    (alg = "prune_free_rectangles" /\ pc = "returned") =>
        /\ \A i \in 1..Len(free) :
               \E k \in 1..Len(bins[1].free_rectangles) :
                   Cells(free[i]) \subseteq Cells(bins[1].free_rectangles[k])
        /\ CellsOfAll(bins[1].free_rectangles) = CellsOfAll(free)

\* BottomLeft2D.pack has returned from the run of the test: the 5x5 bin
\* first and the items A (2x3), B (3x2), C (1x1) in that order.
ScenarioADone ==
    /\ alg = "bottom_left" /\ pc = "done"
    /\ Len(bins) >= 1 /\ bins[1].width = ScenarioBin.width
    /\ bins[1].height = ScenarioBin.height
    /\ [k \in 1..Len(items) |-> <<items[k].width, items[k].height>>]
         = [k \in 1..Len(ScenarioItems) |->
                <<ScenarioItems[k].width, ScenarioItems[k].height>>]

\* Item i has been given the position (x, y) and is held by the first bin.
InFirstBinAt(i, x, y) ==
    /\ items[i].sets >= 1 /\ items[i].x = x /\ items[i].y = y
    /\ \E k \in 1..Len(bins[1].items) : bins[1].items[k] = i

\* C16: BottomLeft2D.pack on one empty 5x5 bin with A (2x3), B (3x2), C (1x1)
\* in that order places A at (0,0), B at (2,0) and C at (0,3), all in the
\* first bin.
C16_ScenarioAPositions ==
    ScenarioADone =>
        InFirstBinAt(1, 0, 0) /\ InFirstBinAt(2, 2, 0) /\ InFirstBinAt(3, 0, 3)

\* C16 amended: BottomLeft2D.pack on one empty 5x5 bin with A (2x3), B (3x2),
\* C (1x1) in that order places A at (0,0), B at (2,0) and C at (2,2), the
\* valid corner of lowest y, all in the first bin, which stays the only bin.
C16_ScenarioAPositionsLowestY ==
    ScenarioADone =>
        /\ InFirstBinAt(1, 0, 0) /\ InFirstBinAt(2, 2, 0) /\ InFirstBinAt(3, 2, 2)
        /\ Len(bins) = 1 /\ bins[1].items = <<1, 2, 3>>

\* C16 witness: the run of the test has returned with C placed.
C16_Witness ==
    ScenarioADone /\ items[3].sets = 1 /\ Len(bins[1].items) = 3

\* The cells of the item record it at its position.
CellsOfItem(it) == Cells(<<it.x, it.y, it.width, it.height>>)

\* C17: the default split of the rectangle (rx, ry, rw, rh) around an item
\* (iw, ih) at its corner returns the right remainder
\* (x+iw, y, (rx+rw)-(x+iw), ih) and then the top remainder
\* (rx, y+ih, rw, (ry+rh)-(y+ih)), each only when its leftover is positive;
\* item and remainders are pairwise disjoint and cover the rectangle exactly;
\* a 4x4 item in a 10x10 bin yields (4,0,6,4) and (0,4,10,6).
C17_DefaultSplitTiles ==
    /\ (alg = "split_rectangle" /\ heuristic = "default" /\ pc = "returned") =>
        LET out == bins[1].free_rectangles
            it == items[1]
            rx == free[1][1]  ry == free[1][2]  rw == free[1][3]  rh == free[1][4]
            right == <<it.x + it.width, it.y, (rx + rw) - (it.x + it.width), it.height>>
            top == <<rx, it.y + it.height, rw, (ry + rh) - (it.y + it.height)>>
        IN  /\ out = (IF right[3] > 0 THEN <<right>> ELSE <<>>)
                       \o (IF top[4] > 0 THEN <<top>> ELSE <<>>)
            /\ \A k \in 1..Len(out) : Cells(out[k]) \cap CellsOfItem(it) = {}
            /\ \A k, m \in 1..Len(out) : k # m => Cells(out[k]) \cap Cells(out[m]) = {}
            /\ CellsOfAll(out) \cup CellsOfItem(it) = Cells(free[1])
    /\ split_default(<<0, 0, 10, 10>>, Item(4, 4), 0, 0)
         = <<<<4, 0, 6, 4>>, <<0, 4, 10, 6>>>>

\* C17 witness: the default split has returned both remainders for a
\* rectangle away from the origin.
C17_Witness ==
    /\ alg = "split_rectangle" /\ heuristic = "default" /\ pc = "returned"
    /\ free[1][1] > 0 /\ free[1][2] > 0
    /\ Len(bins[1].free_rectangles) = 2

\* C18: for every rectangle and every item that fits it, shorter_side and
\* longer_side return the same set of rectangles as the default rule, in
\* whichever order.
C18_SideRulesEmitDefaultSet ==
    (/\ alg = "split_rectangle" /\ pc = "returned"
     /\ heuristic \in {"shorter_side", "longer_side"}) =>
        Range(bins[1].free_rectangles)
          = Range(split_default(free[1], items[1], items[1].x, items[1].y))

\* The indices of the free rectangles that admit the item of the call.
Admitting ==
    {k \in 1..Len(free) :
        items[1].width <= free[k][3] /\ items[1].height <= free[k][4]}

\* max(leftover-width, leftover-height) of the item in free rectangle k
LongLeftover(k) ==
    Max(free[k][3] - items[1].width, free[k][4] - items[1].height)

\* width + height of free rectangle k
SideSum(k) == free[k][3] + free[k][4]

\* find_best_position has returned free rectangle ii's corner under heuristic h.
FindReturned(h) ==
    alg = "find_best_position" /\ heuristic = h /\ pc = "returned"

\* C19: with best_long_side_fit, find_best_position returns an admitting free
\* rectangle whose max(leftover-width, leftover-height) is the largest.
C19_LongSideFitKeepsMaximum ==
    FindReturned("best_long_side_fit") =>
        /\ ii \in Admitting
        /\ \A m \in Admitting : LongLeftover(ii) >= LongLeftover(m)

\* C19 amended: with best_long_side_fit, find_best_position returns the
\* corner of an admitting free rectangle whose max(leftover-width,
\* leftover-height) is the smallest, the first such rectangle of the list.
C19_LongSideFitKeepsMinimum ==
    FindReturned("best_long_side_fit") =>
        /\ ii \in Admitting
        /\ items[1].x = free[ii][1] /\ items[1].y = free[ii][2]
        /\ \A m \in Admitting :
               \/ LongLeftover(ii) < LongLeftover(m)
               \/ LongLeftover(ii) = LongLeftover(m) /\ ii <= m

\* C19 witness: best_long_side_fit has chosen between two admitting
\* rectangles of different score.
C19_Witness ==
    /\ FindReturned("best_long_side_fit")
    /\ \E m \in Admitting : LongLeftover(m) # LongLeftover(ii)

\* C20: with contact_point_rule, find_best_position returns an admitting free
\* rectangle whose width + height is the smallest.
C20_ContactPrefersSmaller ==
    FindReturned("contact_point_rule") =>
        /\ ii \in Admitting
        /\ \A m \in Admitting : SideSum(ii) <= SideSum(m)

\* C20 amended: with contact_point_rule, find_best_position returns the
\* corner of an admitting free rectangle whose width + height is the
\* largest, the first such rectangle of the list.
C20_ContactPrefersLarger ==
    FindReturned("contact_point_rule") =>
        /\ ii \in Admitting
        /\ items[1].x = free[ii][1] /\ items[1].y = free[ii][2]
        /\ \A m \in Admitting :
               \/ SideSum(ii) > SideSum(m)
               \/ SideSum(ii) = SideSum(m) /\ ii <= m

\* C20 witness: contact_point_rule has chosen between two admitting
\* rectangles of different width + height.
C20_Witness ==
    /\ FindReturned("contact_point_rule")
    /\ \E m \in Admitting : SideSum(m) # SideSum(ii)

\* Both runs of the two-run specification have ended.
BothRunsEnded ==
    /\ pc \in {"done", "error"}
    /\ DOMAIN result = {"items", "bins", "first"}
    /\ result.first # None

C22_ReportNeedsReturnedPack ==
    [][/\ (result = None /\ result' # None) => MgrPackReturn
       /\ MgrPackReturn => result' # None
       /\ (result # None /\ pc # "new") => result' # None
       /\ (MgrPackRaised \/ (MgrPack /\ alg = "none")) =>
              (pc' = "raised" /\ result' = result)
       /\ (MgrReport \/ MgrPlot) => (pc' = "raised" <=> result = None)]_vars

\* C22 witness: a call has raised on a BottomLeft2D manager that holds the
\* result of an earlier pack call and has an item but no bin, so that its
\* pack calls raise for want of a base bin.
C22_Witness ==
    /\ pc = "raised" /\ result # None
    /\ alg = "bottom_left" /\ bins = <<>> /\ items # <<>>

\* Bin b has a corner where item `it` stays inside the bin and overlaps no
\* entry of the bin's list.
HasValidCandidate(b, it) == valid_candidates(b, items, it) # <<>>

\* C23: BottomLeft2D.pack handles the items in input order, one per step; the
\* item goes to the first bin, in list order, that has a valid candidate,
\* at the end of that bin's list; a bin is appended, at the end of the bin
\* list and with the first bin's width, height and depth, only when no bin has a
\* valid candidate; so the bin list grows by at most one per item and the
\* bins' lists keep placement order.
C23_BottomLeftFirstBinInOrder ==
    [][(alg = "bottom_left" /\ pc = "run" /\ ii <= Len(items) /\ pc' = "run") =>
        LET n == Len(bins)
            with == {b \in 1..n : HasValidCandidate(bins[b], items[ii])}
        IN  /\ ii' = ii + 1
            /\ \A k \in 1..Len(items) : k # ii => items'[k] = items[k]
            /\ Len(bins') <= n + 1
            /\ with # {} =>
                 LET first == CHOOSE b \in with : \A c \in with : b <= c
                 IN  /\ Len(bins') = n
                     /\ bins'[first].items = Append(bins[first].items, ii)
                     /\ \A b \in 1..n : b # first => bins'[b] = bins[b]
                     /\ <<items'[ii].x, items'[ii].y>>
                          \in Range(valid_candidates(bins[first], items, items[ii]))
            /\ with = {} =>
                 /\ Len(bins') = n + 1
                 /\ \A b \in 1..n : bins'[b] = bins[b]
                 /\ bins'[n + 1].width = bins[1].width
                 /\ bins'[n + 1].height = bins[1].height
                 /\ bins'[n + 1].depth = bins[1].depth
                 /\ bins'[n + 1].items \in {<<>>, <<ii>>}
            /\ \A b \in 1..Len(bins') : \A k, m \in 1..Len(bins'[b].items) :
                   k < m => bins'[b].items[k] < bins'[b].items[m]]_vars

\* C23 witness: the third item went to the first bin, behind the first item,
\* while an overflow bin holding the second item existed.
C23_Witness ==
    /\ alg = "bottom_left" /\ pc = "done"
    /\ Len(bins) = 2 /\ bins[1].items = <<1, 3>> /\ bins[2].items = <<2>>
    /\ HasValidCandidate(bins[2], Item(items[3].width, items[3].height))

\* The corners find_position is to consider for bin b: (0,0) and, for every
\* entry of the bin's list, the corner to its right and the corner above it.
Corners(b) ==
    {<<0, 0>>}
    \cup {<<items[b.items[k]].x + items[b.items[k]].width, items[b.items[k]].y>> :
            k \in 1..Len(b.items)}
    \cup {<<items[b.items[k]].x, items[b.items[k]].y + items[b.items[k]].height>> :
            k \in 1..Len(b.items)}

\* The corners of bin b where item `it` stays inside the bin and covers no
\* cell an entry of the bin's list covers.
ValidCorners(b, it) ==
    {c \in Corners(b) :
        /\ c[1] + it.width <= b.width
        /\ c[2] + it.height <= b.height
        /\ Cells(<<c[1], c[2], it.width, it.height>>) \cap ItemCells(b) = {}}

\* C24: for the item BottomLeft2D.pack is at and every bin, find_position
\* returns None exactly when no corner is valid, and otherwise the valid
\* corner of minimum y, of minimum x among those of equal y; the corners are
\* (0,0) and the right and upper corners of the items already in the bin.
C24_FindPositionLowestLeftmost ==
    (alg = "bottom_left" /\ pc = "run" /\ ii <= Len(items)) =>
        \A b \in 1..Len(bins) :
            LET valid == ValidCorners(bins[b], items[ii])
                pos == find_position(bins[b], items, items[ii])
            IN  /\ pos = None <=> valid = {}
                /\ pos # None =>
                     /\ pos \in valid
                     /\ \A d \in valid :
                            pos[2] < d[2] \/ (pos[2] = d[2] /\ pos[1] <= d[1])

\* C24 witness: the second item was placed in the first bin at a corner lower
\* than, and to the right of, another corner that was valid for it.
C24_Witness ==
    /\ alg = "bottom_left" /\ pc = "run" /\ ii = 3
    /\ Len(bins) = 1 /\ bins[1].items = <<1, 2>>
    /\ \E d \in ValidCorners([bins[1] EXCEPT !.items = <<1>>], items[2]) :
           items[2].y < d[2] /\ items[2].x > d[1]

\* The score of free rectangle k for the item of the call under heuristic h,
\* one of best_short_side_fit, best_area_fit and bottom_left.
ScoreOf(h, k) ==
    CASE h = "best_short_side_fit" ->
             Min(free[k][3] - items[1].width, free[k][4] - items[1].height)
      [] h = "best_area_fit" ->
             free[k][3] * free[k][4] - items[1].width * items[1].height
      [] h = "bottom_left" -> free[k][2] * 10000 + free[k][1]

\* C25: under best_short_side_fit, best_area_fit and bottom_left,
\* find_best_position returns the origin and the index of an admitting free
\* rectangle of minimum score, the lowest index among equal scores, and
\* returns None exactly when no free rectangle admits the item.
C25_FindBestPositionMinimumScore ==
    \A h \in {"best_short_side_fit", "best_area_fit", "bottom_left"} :
        /\ FindReturned(h) =>
             /\ ii \in Admitting
             /\ items[1].x = free[ii][1] /\ items[1].y = free[ii][2]
             /\ \A m \in Admitting :
                    \/ ScoreOf(h, ii) < ScoreOf(h, m)
                    \/ ScoreOf(h, ii) = ScoreOf(h, m) /\ ii <= m
        /\ (alg = "find_best_position" /\ heuristic = h /\ pc = "returned_none")
             => Admitting = {}

\* C25 witness: best_area_fit has returned the first of two different
\* admitting free rectangles of equal area.
C25_Witness ==
    /\ FindReturned("best_area_fit") /\ ii = 1
    /\ 2 \in Admitting /\ free[1] # free[2]
    /\ free[1][3] * free[1][4] = free[2][3] * free[2][4]

\* C26: for a free rectangle and a placed rectangle that intersect,
\* split_free_rectangle returns at most four rectangles, each of positive
\* width and height, each inside the free rectangle, none overlapping the
\* placed rectangle, and together covering exactly the free rectangle minus
\* the placed rectangle.
C26_SplitFreeRectangleExact ==
    (alg = "update_free_rectangles" /\ pc = "split") =>
        LET out == bins[1].free_rectangles
            fr == free[1]
            pr == placed_rect(items[1])
        IN  /\ Len(out) <= 4
            /\ \A k \in 1..Len(out) :
                   /\ out[k][3] > 0 /\ out[k][4] > 0
                   /\ Cells(out[k]) \subseteq Cells(fr)
                   /\ Cells(out[k]) \cap Cells(pr) = {}
            /\ CellsOfAll(out) = Cells(fr) \ Cells(pr)

\* C26 witness: a placed rectangle strictly inside the free rectangle was
\* split into four.
C26_Witness ==
    /\ alg = "update_free_rectangles" /\ pc = "split"
    /\ Len(bins[1].free_rectangles) = 4

\* C27: the identifier of an overflow bin BottomLeft2D.pack or FirstFit2D.pack
\* appends differs from the identifier of every bin already in the list,
\* whatever identifiers the caller's bins have.
C27_OverflowIdFresh ==
    [][(BLOverflow \/ FFOverflow) =>
          \A b \in 1..Len(bins) : bins'[Len(bins')].id # bins[b].id]_vars

\* The corner points of the unit grid on or inside the rectangle, its edges
\* included.
Points(r) ==
    {<<px, py>> : px \in r[1]..(r[1] + r[3]), py \in r[2]..(r[2] + r[4])}

\* The rectangles share an edge or a corner and no area.
OnlyTouching(a, b) ==
    Points(a) \cap Points(b) # {} /\ Cells(a) \cap Cells(b) = {}

\* One rectangle lies entirely left of, right of, below or above the other.
EntirelyApart(a, b) ==
    \/ a[1] + a[3] <= b[1]
    \/ b[1] + b[3] <= a[1]
    \/ a[2] + a[4] <= b[2]
    \/ b[2] + b[4] <= a[2]

\* C28: rectangles_overlap and rectangles_intersect give the same answer on
\* every pair of rectangles: true exactly when neither lies entirely left of,
\* right of, above or below the other, which is when they share area; the
\* answer is the same in both argument orders and false for rectangles that
\* only share an edge or a corner.
C28_OverlapEqualsIntersect ==
    pc = "returned" =>
        /\ result.overlap = result.intersect
        /\ result.overlap = ~EntirelyApart(free[1], free[2])
        /\ result.overlap = (Cells(free[1]) \cap Cells(free[2]) # {})
        /\ result.overlap_swapped = result.overlap
        /\ result.intersect_swapped = result.intersect
        /\ OnlyTouching(free[1], free[2]) => (~result.overlap /\ ~result.intersect)

C28_Witness ==
    /\ pc = "returned"
    /\ OnlyTouching(free[1], free[2])
    /\ free[1][1] + free[1][3] = free[2][1]
    /\ free[1][2] = free[2][2]
    /\ ~result.overlap /\ ~result.intersect

\* Free rectangle k starts lower than free rectangle m, or as low and further
\* left.
LowerLeft(k, m) ==
    \/ free[k][2] < free[m][2]
    \/ free[k][2] = free[m][2] /\ free[k][1] < free[m][1]

\* C29: with heuristic bottom_left, of any two admitting free rectangles the
\* one with the smaller y (or equal y and smaller x) has the strictly smaller
\* score y*10000 + x, whatever the size of the bin, and find_best_position
\* returns the lowest, then leftmost, admitting free-rectangle origin.
C29_BottomLeftScoreLexicographic ==
    LET score(k) == evaluate_position("bottom_left", free[k][1], free[k][2],
                                      free[k][3], free[k][4], items[1])
    IN  FindReturned("bottom_left") =>
          /\ \A k \in Admitting, m \in Admitting :
                 LowerLeft(k, m) => score(k) < score(m)
          /\ ii \in Admitting
          /\ \A m \in Admitting : ~LowerLeft(m, ii)

\* How many entries of the bin's item list refer to item i.
EntriesIn(b, i) == Cardinality({k \in 1..Len(b.items) : b.items[k] = i})

\* Item i is referred to by at most one entry over all bins' item lists.
OccursAtMostOnce(i) ==
    /\ Cardinality(BinsHolding(i)) <= 1
    /\ \A b \in 1..Len(bins) : EntriesIn(bins[b], i) <= 1

\* C30: after any number of BinManager.pack calls with BottomLeft2D on the
\* same registered items and bins, every registered item occurs at most once
\* over all bins' item lists and no two entries of a bin's item list overlap.
C30_RepackKeepsItemsUnique ==
    (alg = "bottom_left" /\ pc = "ready" /\ packs_returned >= 1) =>
        /\ \A i \in 1..Len(items) : OccursAtMostOnce(i)
        /\ \A b \in 1..Len(bins) : NoOverlapIn(bins[b])

====
